---------------------------- MODULE Spec2Model ----------------------------
(***************************************************************************)
(* A model of action.py, the helm deploy action: configuration read from   *)
(* the environment, argument assembly for install / upgrade / uninstall /  *)
(* template, repository registration, credential scoping, the subprocess   *)
(* runner with its signal handlers, and the exit code relay.               *)
(*                                                                         *)
(* Python values.  A configuration option is a Python str or None.  A str  *)
(* is a TLA+ string; None is the reserved string below, which no option    *)
(* value of the model equals.  `values-files` alone is kept as a sequence  *)
(* of one-character strings so that splitlines can be computed on it, and  *)
(* its None is the one-element sequence NoneText.                          *)
(* No option value of the model holds a blank or a quote, so that          *)
(* shlex.split of the joined command line only has to drop empty words.    *)
(***************************************************************************)
EXTENDS Integers, Sequences, FiniteSets, TLC

None == "<None>"
NoneText == <<None>>

\* Python truthiness of an optional str: None and "" are false.
Truthy(v) == v # None /\ v # ""

\* str(v), as an f-string formats it.
Str(v) == IF v = None THEN "None" ELSE v

----------------------------------------------------------------------------
(* Bounds of the model *)

\* longest `values-files` text, in characters
MaxLen == 3
\* largest exit code a child returns
MaxExit == 1
\* most signals the parent receives in one run
MaxSignals == 1

----------------------------------------------------------------------------
(* load_values_files: str.splitlines, then filter(None, ...) *)

RECURSIVE SplitFrom(_, _, _)
SplitFrom(s, i, cur) ==
    IF i > Len(s) THEN (IF cur = "" THEN <<>> ELSE <<cur>>)
    ELSE IF s[i] = "\n" THEN <<cur>> \o SplitFrom(s, i + 1, "")
    ELSE IF s[i] = "\r"
         THEN <<cur>> \o SplitFrom(s, IF i < Len(s) /\ s[i + 1] = "\n"
                                       THEN i + 2 ELSE i + 1, "")
    ELSE SplitFrom(s, i + 1, cur \o s[i])

\* str.splitlines(): lines without their terminators, no final empty line
splitlines(s) == SplitFrom(s, 1, "")

NonEmpty(e) == e # ""

\* variant: the empty lines are kept
load_values_files_unfiltered(sp) ==
    IF sp["values-files"] = NoneText \/ sp["values-files"] = <<>>
    THEN <<>>
    ELSE splitlines(sp["values-files"])

load_values_files(sp) ==
    IF sp["values-files"] = NoneText \/ sp["values-files"] = <<>>
    THEN <<>>
    ELSE SelectSeq(splitlines(sp["values-files"]), NonEmpty)


----------------------------------------------------------------------------
(* load_chart and the repository name load_repo registers *)

load_chart(sp) ==
    IF ~Truthy(sp["repo"]) \/ (Truthy(sp["repo"]) /\ Truthy(sp["repo-name"]))
    THEN sp["chart"]
    ELSE "charts/" \o Str(sp["chart"])

\* variant: another default repository name
repo_name_stable(sp) ==
    IF Truthy(sp["repo-name"]) THEN sp["repo-name"] ELSE "stable"

\* specs["repo-name"] or "charts"
repo_name(sp) ==
    IF Truthy(sp["repo-name"]) THEN sp["repo-name"] ELSE "charts"

repo_add_params(sp) == <<repo_name(sp), sp["repo"]>>

----------------------------------------------------------------------------
(* load_values.  yaml.safe_load_all is a generator function: calling it    *)
(* builds a generator object and runs none of its body, so the document is *)
(* parsed only when the generator is iterated.                             *)

WrkDir == "/tmp/wrkdir"
ValuesFile == "values.yaml"
KubeconfigFile == ".kube_config.yml"
ValuesPath == WrkDir \o "/" \o ValuesFile

GoodYaml == "a: 1"
BadYaml == "a: ["

\* whether the text parses as a stream of YAML documents
WellFormedYaml(text) == text # BadYaml

ymlload(stream) == [stream |-> stream, started |-> FALSE]

\* a parse error can only surface from a generator that has been advanced
ParseRaises(gen) == gen.started /\ ~WellFormedYaml(gen.stream)

\* what load_values does: leave by sys.exit(1), write values.yaml, return
load_values(sp) ==
    IF ~Truthy(sp["values"])
    THEN [exits |-> FALSE, writes |-> FALSE, ret |-> None]
    ELSE IF ParseRaises(ymlload(sp["values"]))
    THEN [exits |-> TRUE, writes |-> FALSE, ret |-> None]
    ELSE [exits |-> FALSE, writes |-> TRUE, ret |-> ValuesPath]

----------------------------------------------------------------------------
(* The argument lists of the four operations *)

RECURSIVE FPairs(_)
\* for values_file in values_files: params.extend(["-f", values_file])
FPairs(fs) ==
    IF fs = <<>> THEN <<>> ELSE <<"-f", Head(fs)>> \o FPairs(Tail(fs))

helm_install_params(sp, values_target) ==
    <<sp["release"], load_chart(sp), "--namespace", sp["namespace"]>>
    \o (IF sp["atomic"] = "true" THEN <<"--atomic">> ELSE <<>>)
    \o (IF sp["dry-run"] = "true" THEN <<"--dry-run">> ELSE <<>>)
    \o FPairs(load_values_files(sp))
    \o (IF Truthy(values_target) THEN <<"-f", values_target>> ELSE <<>>)
    \o (IF Truthy(sp["chart-version"])
        THEN <<"--version", sp["chart-version"]>> ELSE <<>>)
    \o (IF Truthy(sp["timeout"]) THEN <<"--timeout", sp["timeout"]>> ELSE <<>>)

helm_upgrade_params(sp, values_target) ==
    <<sp["release"], load_chart(sp), "--install", "--namespace", sp["namespace"]>>
    \o (IF sp["atomic"] = "true" THEN <<"--atomic">> ELSE <<>>)
    \o (IF sp["dry-run"] = "true" THEN <<"--dry-run">> ELSE <<>>)
    \o FPairs(load_values_files(sp))
    \o (IF Truthy(values_target) THEN <<"-f", values_target>> ELSE <<>>)
    \o (IF Truthy(sp["chart-version"])
        THEN <<"--version", sp["chart-version"]>> ELSE <<>>)
    \o (IF Truthy(sp["timeout"]) THEN <<"--timeout", sp["timeout"]>> ELSE <<>>)

\* variant: template keeps the --atomic and --dry-run flags
helm_template_params_flags(sp, values_target) ==
    <<sp["release"], load_chart(sp), "--namespace", sp["namespace"]>>
    \o (IF sp["atomic"] = "true" THEN <<"--atomic">> ELSE <<>>)
    \o (IF sp["dry-run"] = "true" THEN <<"--dry-run">> ELSE <<>>)
    \o FPairs(load_values_files(sp))
    \o (IF Truthy(values_target) THEN <<"-f", values_target>> ELSE <<>>)
    \o (IF Truthy(sp["chart-version"])
        THEN <<"--version", sp["chart-version"]>> ELSE <<>>)

helm_template_params(sp, values_target) ==
    <<sp["release"], load_chart(sp), "--namespace", sp["namespace"]>>
    \o FPairs(load_values_files(sp))
    \o (IF Truthy(values_target) THEN <<"-f", values_target>> ELSE <<>>)
    \o (IF Truthy(sp["chart-version"])
        THEN <<"--version", sp["chart-version"]>> ELSE <<>>)

helm_uninstall_params(sp) ==
    <<sp["release"], "--namespace", sp["namespace"]>>

----------------------------------------------------------------------------
(* run_helm's command line *)

\* ["helm", cmd] + params; cmd is kept as its words
helm_cmd(cmd, params) == <<"helm">> \o cmd \o params

\* " ".join raises TypeError on an item that is not a str
JoinRaises(items) == \E i \in 1..Len(items) : items[i] = None

\* shlex.split(" ".join(items)): an empty item leaves no word
shlex_split(items) == SelectSeq(items, NonEmpty)

\* the KUBECFGB64 values of the model; unset reads as ""
GoodB64 == "YQ=="
BadB64 == "YQ="
B64Raises(encoded) == encoded = BadB64

\* the process exit status of sys.exit(n)
ExitStatus(n) == n % 256

\* variant: an unknown mode falls back to install
dispatch_default(mode) ==
    IF mode \in {"install", "upgrade", "uninstall", "template"}
    THEN mode ELSE "install"

\* {...}.get(specs["mode"])
Modes == {"install", "upgrade", "uninstall", "template"}
dispatch(mode) == IF mode \in Modes THEN mode ELSE None

----------------------------------------------------------------------------
(* State *)

VARIABLES
    specs,      \* load_inputs(): option name -> str or None
    kubecfg,    \* os.environ.get("KUBECFGB64"), None when unset
    pc,         \* where the main thread is
    rh,         \* where it is inside run_helm, "-" outside
    wrkdir,     \* whether tempfile.mkdtemp() has made the directory
    files,      \* names of the files in the working directory
    params,     \* the params list the operation has built
    calls,      \* the run_helm calls made so far: cmd, params, KUBECONFIG
    procs,      \* the Popen objects made so far, in launch order
    handler,    \* signal -> 0 (the interpreter's default) or the index in
                \* procs of the child kill_helm is bound to
    ret,        \* value of the last run_helm call, <<>> before it
    exitCode,   \* <<n>> once the process has exited with status n
    ended,      \* "no", "exit" (sys.exit), "exception" or "signal"
    sigLog      \* one entry per signal the parent received: the child
                \* running then, and what handler[signal] was then

vars == <<specs, kubecfg, pc, rh, wrkdir, files, params, calls, procs,
          handler, ret, exitCode, ended, sigLog>>

Signals == {"SIGINT", "SIGTERM"}

\* the index of the child that is running, 0 when none is
ActiveChild ==
    IF \E i \in 1..Len(procs) : procs[i].returncode = <<>>
    THEN CHOOSE i \in 1..Len(procs) : procs[i].returncode = <<>>
    ELSE 0

----------------------------------------------------------------------------
(* Inputs of the model *)

Config(m, rel, ch, ns, repo, rn, cv, at, dr, tmo, val, vf) ==
    [k \in {"atomic", "chart-version", "chart", "dry-run", "helm-version",
            "mode", "namespace", "release", "repo-name", "repo", "timeout",
            "values-files", "values"} |->
        CASE k = "atomic" -> at
          [] k = "chart-version" -> cv
          [] k = "chart" -> ch
          [] k = "dry-run" -> dr
          [] k = "helm-version" -> None
          [] k = "mode" -> m
          [] k = "namespace" -> ns
          [] k = "release" -> rel
          [] k = "repo-name" -> rn
          [] k = "repo" -> repo
          [] k = "timeout" -> tmo
          [] k = "values-files" -> vf
          [] k = "values" -> val]

\* the runs of the process model
RunModes == Modes \cup {None, "Install"}
RunConfigs ==
    { Config(m, rel, "X", "ns1", repo, rn, None, fl, fl, tmo, val,
             <<"a", "\n", "\n", "b">>) :
        m \in RunModes, rel \in {None, "r1"},
        repo \in {None, "", "https://charts.example"},
        rn \in {None, "", "foo"},
        fl \in {None, "true"}, tmo \in {None, "5m"},
        val \in {None, GoodYaml, BadYaml} }

\* the texts of `values-files`: None and every text of at most MaxLen
\* characters over two path characters and the two line terminators
Texts ==
    {NoneText} \cup
    UNION { [1..n -> {"a", "b", "\n", "\r"}] : n \in 0..MaxLen }

\* the configurations the argument assembly is applied to
ArgsConfigs ==
    { Config(m, rel, "X", "ns1", repo, rn, cv, at, dr, tmo, val, vf) :
        m \in Modes, rel \in {"r1"},
        repo \in {None, "https://charts.example"}, rn \in {"", "foo"},
        cv \in {None, "1.2.3"}, at \in {None, "true", "false"},
        dr \in {"", "true"}, tmo \in {None, "5m"},
        val \in {None, GoodYaml}, vf \in Texts }

Init ==
    /\ specs \in RunConfigs
    /\ kubecfg \in {GoodB64, BadB64}
    /\ pc = "run"
    /\ rh = "-"
    /\ wrkdir = FALSE
    /\ files = {}
    /\ params = <<>>
    /\ calls = <<>>
    /\ procs = <<>>
    /\ handler = [sg \in Signals |-> 0]
    /\ ret = <<>>
    /\ exitCode = <<>>
    /\ ended = "no"
    /\ sigLog = <<>>

----------------------------------------------------------------------------
(* Leaving the process *)

\* sys.exit(n)
SysExit(n) ==
    /\ pc' = "done"
    /\ rh' = "-"
    /\ exitCode' = <<ExitStatus(n)>>
    /\ ended' = "exit"

\* an exception nothing catches: traceback, exit status 1
Uncaught ==
    /\ pc' = "done"
    /\ rh' = "-"
    /\ exitCode' = <<1>>
    /\ ended' = "exception"

----------------------------------------------------------------------------
(* run() *)

Run ==
    /\ pc = "run" /\ ended = "no"
    /\ IF dispatch(specs["mode"]) = None
       THEN /\ SysExit(1)
            /\ UNCHANGED wrkdir
       ELSE /\ wrkdir' = TRUE
            /\ pc' = IF specs["mode"] = "uninstall"
                     THEN "helm_uninstall" ELSE "load_repo"
            /\ UNCHANGED <<rh, exitCode, ended>>
    /\ UNCHANGED <<specs, kubecfg, files, params, calls, procs, handler, ret,
                   sigLog>>

\* load_repo's wrap, up to its first call
LoadRepo ==
    /\ pc = "load_repo" /\ ended = "no"
    /\ IF Truthy(specs["repo"])
       THEN pc' = "repo_add" /\ rh' = "popen"
       ELSE pc' = "helm_" \o specs["mode"] /\ rh' = "-"
    /\ UNCHANGED <<specs, kubecfg, wrkdir, files, params, calls, procs,
                   handler, ret, exitCode, ended, sigLog>>

----------------------------------------------------------------------------
(* The four operations, each up to its call of the runner *)

HelmInstall ==
    /\ pc = "helm_install" /\ ended = "no"
    /\ LET lv == load_values(specs) IN
       IF lv.exits
       THEN /\ SysExit(1)
            /\ UNCHANGED <<files, params>>
       ELSE /\ files' = IF lv.writes THEN files \cup {ValuesFile} ELSE files
            /\ params' = helm_install_params(specs, lv.ret)
            /\ pc' = "wrap_helm"
            /\ UNCHANGED <<rh, exitCode, ended>>
    /\ UNCHANGED <<specs, kubecfg, wrkdir, calls, procs, handler, ret, sigLog>>

HelmUpgrade ==
    /\ pc = "helm_upgrade" /\ ended = "no"
    /\ LET lv == load_values(specs) IN
       IF lv.exits
       THEN /\ SysExit(1)
            /\ UNCHANGED <<files, params>>
       ELSE /\ files' = IF lv.writes THEN files \cup {ValuesFile} ELSE files
            /\ params' = helm_upgrade_params(specs, lv.ret)
            /\ pc' = "wrap_helm"
            /\ UNCHANGED <<rh, exitCode, ended>>
    /\ UNCHANGED <<specs, kubecfg, wrkdir, calls, procs, handler, ret, sigLog>>

HelmTemplate ==
    /\ pc = "helm_template" /\ ended = "no"
    /\ LET lv == load_values(specs) IN
       IF lv.exits
       THEN /\ SysExit(1)
            /\ UNCHANGED <<files, params>>
       ELSE /\ files' = IF lv.writes THEN files \cup {ValuesFile} ELSE files
            /\ params' = helm_template_params(specs, lv.ret)
            /\ pc' = "template"
            /\ rh' = "popen"
            /\ UNCHANGED <<exitCode, ended>>
    /\ UNCHANGED <<specs, kubecfg, wrkdir, calls, procs, handler, ret, sigLog>>

HelmUninstall ==
    /\ pc = "helm_uninstall" /\ ended = "no"
    /\ params' = helm_uninstall_params(specs)
    /\ pc' = "wrap_helm"
    /\ UNCHANGED <<specs, kubecfg, rh, wrkdir, files, calls, procs, handler,
                   ret, exitCode, ended, sigLog>>

----------------------------------------------------------------------------
(* wrap_helm and load_kubeconfig *)

\* entering the with block: load_kubeconfig up to its yield
LoadKubeconfig ==
    /\ pc = "wrap_helm" /\ ended = "no"
    /\ LET encoded == IF kubecfg = None THEN "" ELSE kubecfg IN
       IF B64Raises(encoded)
       THEN /\ SysExit(1)
            /\ UNCHANGED files
       ELSE /\ files' = files \cup {KubeconfigFile}
            /\ pc' = "deploy"
            /\ rh' = "popen"
            /\ UNCHANGED <<exitCode, ended>>
    /\ UNCHANGED <<specs, kubecfg, wrkdir, params, calls, procs, handler, ret,
                   sigLog>>

\* leaving the with block normally: the generator resumes after its yield
Unlink ==
    /\ pc = "unlink" /\ ended = "no"
    /\ files' = files \ {KubeconfigFile}
    /\ pc' = "sys_exit"
    /\ UNCHANGED <<specs, kubecfg, rh, wrkdir, params, calls, procs, handler,
                   ret, exitCode, ended, sigLog>>

\* sys.exit(ret), in wrap_helm and in helm_template
Exit ==
    /\ pc = "sys_exit" /\ ended = "no"
    /\ SysExit(ret[1])
    /\ UNCHANGED <<specs, kubecfg, wrkdir, files, params, calls, procs,
                   handler, ret, sigLog>>

----------------------------------------------------------------------------
(* run_helm *)

InRunHelm == pc \in {"repo_add", "repo_update", "deploy", "template"}

CurCmd ==
    CASE pc = "repo_add" -> <<"repo", "add", "--force-update">>
      [] pc = "repo_update" -> <<"repo", "update">>
      [] pc = "deploy" -> <<specs["mode"]>>
      [] pc = "template" -> <<"template">>

CurParams ==
    CASE pc = "repo_add" -> repo_add_params(specs)
      [] pc = "repo_update" -> <<>>
      [] OTHER -> params

\* the KUBECONFIG keyword wrap_helm passes
CurKubeconfig ==
    IF pc = "deploy" THEN WrkDir \o "/" \o KubeconfigFile ELSE None

\* variant: the return code of the first child of the run
run_helm_return_first(ps) == ps[1].returncode

\* proc.returncode once proc.wait() is over
run_helm_return(ps) == ps[Len(ps)].returncode

\* variant: load_repo gives up when repo add fails
AfterRunHelm_checked ==
    CASE pc = "repo_add" ->
           IF run_helm_return(procs) = <<0>>
           THEN [pc |-> "repo_update", rh |-> "popen"]
           ELSE [pc |-> "sys_exit", rh |-> "-"]
      [] pc = "repo_update" -> [pc |-> "helm_" \o specs["mode"], rh |-> "-"]
      [] pc = "deploy" -> [pc |-> "unlink", rh |-> "-"]
      [] pc = "template" -> [pc |-> "sys_exit", rh |-> "-"]

\* where the caller goes on when run_helm returns
AfterRunHelm ==
    CASE pc = "repo_add" -> [pc |-> "repo_update", rh |-> "popen"]
      [] pc = "repo_update" -> [pc |-> "helm_" \o specs["mode"], rh |-> "-"]
      [] pc = "deploy" -> [pc |-> "unlink", rh |-> "-"]
      [] pc = "template" -> [pc |-> "sys_exit", rh |-> "-"]

\* lines 100-107: the command line is built and the child started.  The
\* join raises on a None item, and Popen raises when helm cannot be run.
RunHelmPopen ==
    /\ InRunHelm /\ rh = "popen" /\ ended = "no"
    /\ calls' = Append(calls, [cmd |-> CurCmd, params |-> CurParams,
                               kubeconfig |-> CurKubeconfig])
    /\ \E started \in BOOLEAN :
         IF JoinRaises(helm_cmd(CurCmd, CurParams)) \/ ~started
         THEN /\ Uncaught
              /\ UNCHANGED procs
         ELSE /\ procs' = Append(procs,
                    [argv |-> shlex_split(helm_cmd(CurCmd, CurParams)),
                     kubeconfig |-> CurKubeconfig,
                     returncode |-> <<>>,
                     sigints |-> 0])
              /\ rh' = "sigint"
              /\ UNCHANGED <<pc, exitCode, ended>>
    /\ UNCHANGED <<specs, kubecfg, wrkdir, files, params, handler, ret, sigLog>>

\* line 109
RunHelmSigint ==
    /\ InRunHelm /\ rh = "sigint" /\ ended = "no"
    /\ handler' = [handler EXCEPT !["SIGINT"] = Len(procs)]
    /\ rh' = "sigterm"
    /\ UNCHANGED <<specs, kubecfg, pc, wrkdir, files, params, calls, procs,
                   ret, exitCode, ended, sigLog>>

\* line 110
RunHelmSigterm ==
    /\ InRunHelm /\ rh = "sigterm" /\ ended = "no"
    /\ handler' = [handler EXCEPT !["SIGTERM"] = Len(procs)]
    /\ rh' = "wait"
    /\ UNCHANGED <<specs, kubecfg, pc, wrkdir, files, params, calls, procs,
                   ret, exitCode, ended, sigLog>>

\* lines 111-112: proc.wait() returns once the child has ended
RunHelmWait ==
    /\ InRunHelm /\ rh = "wait" /\ ended = "no"
    /\ procs[Len(procs)].returncode # <<>>
    /\ ret' = run_helm_return(procs)
    /\ pc' = AfterRunHelm.pc
    /\ rh' = AfterRunHelm.rh
    /\ UNCHANGED <<specs, kubecfg, wrkdir, files, params, calls, procs,
                   handler, exitCode, ended, sigLog>>

----------------------------------------------------------------------------
(* The environment: children end, signals reach the parent *)

\* the running child exits with a code of its own
ChildExit ==
    /\ ended = "no" /\ ActiveChild # 0
    /\ \E code \in 0..MaxExit :
         procs' = [procs EXCEPT ![ActiveChild].returncode = <<code>>]
    /\ UNCHANGED <<specs, kubecfg, pc, rh, wrkdir, files, params, calls,
                   handler, ret, exitCode, ended, sigLog>>

\* a child that was sent SIGINT dies of it: Popen reports -SIGINT
ChildKilled ==
    /\ ended = "no" /\ ActiveChild # 0
    /\ procs[ActiveChild].sigints > 0
    /\ procs' = [procs EXCEPT ![ActiveChild].returncode = <<-2>>]
    /\ UNCHANGED <<specs, kubecfg, pc, rh, wrkdir, files, params, calls,
                   handler, ret, exitCode, ended, sigLog>>

\* kill_helm(proc, signum, frame): send_signal does nothing to a child
\* that has already ended
kill_helm(ps, i) ==
    IF ps[i].returncode = <<>>
    THEN [ps EXCEPT ![i].sigints = @ + 1]
    ELSE ps

\* SIGINT or SIGTERM arrives and the handler installed at that moment runs.
\* With no handler installed the interpreter's default ends the process
\* (KeyboardInterrupt, or death by SIGTERM) wherever it stands.
ParentSignal ==
    /\ ended = "no" /\ Len(sigLog) < MaxSignals
    /\ \E sg \in Signals :
         /\ sigLog' = Append(sigLog, [active |-> ActiveChild,
                                      target |-> handler[sg]])
         /\ IF handler[sg] = 0
            THEN /\ ended' = "signal"
                 /\ pc' = "done"
                 /\ rh' = "-"
                 /\ UNCHANGED procs
            ELSE /\ procs' = kill_helm(procs, handler[sg])
                 /\ UNCHANGED <<pc, rh, ended>>
    /\ UNCHANGED <<specs, kubecfg, wrkdir, files, params, calls, handler,
                   ret, exitCode>>

Next ==
    \/ Run
    \/ LoadRepo
    \/ HelmInstall
    \/ HelmUpgrade
    \/ HelmTemplate
    \/ HelmUninstall
    \/ LoadKubeconfig
    \/ RunHelmPopen
    \/ RunHelmSigint
    \/ RunHelmSigterm
    \/ RunHelmWait
    \/ Unlink
    \/ Exit
    \/ ChildExit
    \/ ChildKilled
    \/ ParentSignal

Spec == Init /\ [][Next]_vars

----------------------------------------------------------------------------
(* The argument assembly on its own: each operation's list is built from   *)
(* a configuration and recorded as the call it hands to the runner.        *)

InitArgs ==
    /\ specs \in ArgsConfigs
    /\ kubecfg = None
    /\ pc = "args"
    /\ rh = "-"
    /\ wrkdir = TRUE
    /\ files = {}
    /\ params = <<>>
    /\ calls = <<>>
    /\ procs = <<>>
    /\ handler = [sg \in Signals |-> 0]
    /\ ret = <<>>
    /\ exitCode = <<>>
    /\ ended = "no"
    /\ sigLog = <<>>

Built(cmd, ps) ==
    /\ params' = ps
    /\ calls' = <<[cmd |-> cmd, params |-> ps, kubeconfig |-> None]>>
    /\ pc' = "built"
    /\ UNCHANGED <<specs, kubecfg, rh, wrkdir, files, procs, handler, ret,
                   exitCode, ended, sigLog>>

ArgsInstall ==
    /\ pc = "args" /\ specs["mode"] = "install"
    /\ Built(<<"install">>, helm_install_params(specs, load_values(specs).ret))

ArgsUpgrade ==
    /\ pc = "args" /\ specs["mode"] = "upgrade"
    /\ Built(<<"upgrade">>, helm_upgrade_params(specs, load_values(specs).ret))

ArgsTemplate ==
    /\ pc = "args" /\ specs["mode"] = "template"
    /\ Built(<<"template">>, helm_template_params(specs, load_values(specs).ret))

ArgsUninstall ==
    /\ pc = "args" /\ specs["mode"] = "uninstall"
    /\ Built(<<"uninstall">>, helm_uninstall_params(specs))

NextArgs == ArgsInstall \/ ArgsUpgrade \/ ArgsTemplate \/ ArgsUninstall

SpecArgs == InitArgs /\ [][NextArgs]_vars

----------------------------------------------------------------------------
(* Vocabulary of the properties *)

Done == pc = "done"

\* the process left by sys.exit or by an uncaught exception, not by a signal
Exited == Done /\ ended # "signal"

RepoModes == {"install", "upgrade", "template"}

\* the children that ran the deploy subcommand, the calls that asked for it
DeployProcs == {i \in 1..Len(procs) : procs[i].argv[2] # "repo"}
RepoProcs == {i \in 1..Len(procs) : procs[i].argv[2] = "repo"}
DeployCalls == {i \in 1..Len(calls) : calls[i].cmd[1] # "repo"}

Running == {i \in 1..Len(procs) : procs[i].returncode = <<>>}

\* the main thread is past load_repo's two calls
PastRepo ==
    pc \in {"helm_install", "helm_upgrade", "helm_template", "wrap_helm",
            "deploy", "template", "unlink", "sys_exit"}

\* the main thread is past load_values
PastLoadValues ==
    pc \in {"wrap_helm", "deploy", "template", "unlink", "sys_exit"}

----------------------------------------------------------------------------
(* C1 *)

\* C1 (as claimed): in install, upgrade and uninstall modes, however the
\* process leaves (sys.exit after the deploy child ended, or an exception
\* raised inside the with block), the credential file is not in the working
\* directory once the process has exited.
C1_CredentialRemovedOnEveryExit ==
    (Exited /\ specs["mode"] \in {"install", "upgrade", "uninstall"})
        => KubeconfigFile \notin files

----------------------------------------------------------------------------
(* C2 *)

\* C2 (as claimed): in the modes that call load_values, when `values` is
\* text that is not well-formed YAML, load_values ends the process: values.yaml is never written and the run
\* never gets past load_values to the deploy subcommand.
C2_InvalidValuesNeverWritten ==
    (/\ specs["mode"] \in {"install", "upgrade", "template"}
     /\ Truthy(specs["values"]) /\ ~WellFormedYaml(specs["values"]))
        => /\ ValuesFile \notin files
           /\ ~PastLoadValues
           /\ DeployCalls = {}

----------------------------------------------------------------------------
(* C3 *)

\* C3 (as claimed): every SIGINT or SIGTERM the parent received while a
\* child was running was handled by the handler bound to that child, and
\* each child has received exactly as many SIGINTs as the parent received
\* signals while that child ran.
C3_SignalReachesActiveChild ==
    /\ \A k \in 1..Len(sigLog) :
         sigLog[k].active # 0 => sigLog[k].target = sigLog[k].active
    /\ \A i \in 1..Len(procs) :
         procs[i].sigints =
           Cardinality({k \in 1..Len(sigLog) : sigLog[k].active = i})

----------------------------------------------------------------------------
(* C4 *)

\* C4: once the process has exited, if a deploy child ran and exited with
\* code c, the process exit code is c, whatever the repo children returned;
\* and the deploy subcommand is never launched twice.
C4_ExitCodeIsDeployChildExitCode ==
    /\ Cardinality(DeployProcs) <= 1
    /\ \A i \in DeployProcs :
         (Exited /\ procs[i].returncode # <<>> /\ procs[i].returncode[1] >= 0)
             => exitCode = procs[i].returncode

\* a run whose repo add child returned 0 and whose deploy child returned 1
C4_Witness ==
    /\ Exited /\ Len(procs) = 3
    /\ procs[1].returncode = <<0>>
    /\ procs[3].returncode = <<1>>
    /\ exitCode = <<1>>

----------------------------------------------------------------------------
(* C5 *)

\* C5: when mode is unset or is not exactly install, upgrade, uninstall or
\* template, no subprocess is launched, the working directory is not made,
\* no file is written, and the process exits with code 1.
C5_UnknownModeExitsOneWithoutEffects ==
    specs["mode"] \notin {"install", "upgrade", "uninstall", "template"}
        => /\ procs = <<>> /\ calls = <<>>
           /\ ~wrkdir /\ files = {}
           /\ Exited => (ended = "exit" /\ exitCode = <<1>>)

\* the run with mode "Install" has exited
C5_Witness ==
    /\ specs["mode"] = "Install" /\ Exited /\ exitCode = <<1>> /\ ~wrkdir

----------------------------------------------------------------------------
(* C6 *)

\* C6 (as claimed): no argument list handed to run_helm holds None or "".
C6_NoAbsentOrEmptyArgument ==
    \A i \in 1..Len(calls) : \A j \in 1..Len(calls[i].params) :
        calls[i].params[j] # None /\ calls[i].params[j] # ""

----------------------------------------------------------------------------
(* C7 *)

IsBreak(c) == c \in {"\n", "\r"}

RECURSIVE TextOf(_, _, _)
\* the characters t[i..j] as one string
TextOf(t, i, j) == IF i > j THEN "" ELSE t[i] \o TextOf(t, i + 1, j)

\* the last position of the run of non-terminator characters starting at i
RunEnd(t, i) ==
    CHOOSE j \in i..Len(t) :
        /\ \A k \in i..j : ~IsBreak(t[k])
        /\ j = Len(t) \/ IsBreak(t[j + 1])

RECURSIVE RunsFrom(_, _)
\* the maximal runs of non-terminator characters of t at or after position
\* i, in order: the non-blank lines of the text
RunsFrom(t, i) ==
    LET starts == {k \in i..Len(t) : ~IsBreak(t[k])} IN
    IF starts = {} THEN <<>>
    ELSE LET st == CHOOSE k \in starts : \A m \in starts : k <= m IN
         <<TextOf(t, st, RunEnd(t, st))>> \o RunsFrom(t, RunEnd(t, st) + 1)

NonBlankLines(t) == IF t = NoneText THEN <<>> ELSE RunsFrom(t, 1)

RECURSIVE EachWithF(_)
EachWithF(ls) ==
    IF ls = <<>> THEN <<>>
    ELSE EachWithF(SubSeq(ls, 1, Len(ls) - 1)) \o <<"-f", ls[Len(ls)]>>

\* the vector the claim describes; `set` is read as non-empty
C7_Vector(upgrade) ==
    <<specs["release"], load_chart(specs)>>
    \o (IF upgrade THEN <<"--install">> ELSE <<>>)
    \o <<"--namespace", specs["namespace"]>>
    \o (IF specs["atomic"] = "true" THEN <<"--atomic">> ELSE <<>>)
    \o (IF specs["dry-run"] = "true" THEN <<"--dry-run">> ELSE <<>>)
    \o EachWithF(NonBlankLines(specs["values-files"]))
    \o (IF specs["values"] \notin {None, ""} THEN <<"-f", ValuesPath>> ELSE <<>>)
    \o (IF specs["chart-version"] \notin {None, ""}
        THEN <<"--version", specs["chart-version"]>> ELSE <<>>)
    \o (IF specs["timeout"] \notin {None, ""}
        THEN <<"--timeout", specs["timeout"]>> ELSE <<>>)

\* C7: install hands the runner exactly release, chart reference,
\* --namespace, namespace, then --atomic, --dry-run, one -f pair per
\* non-blank line of values-files in order, the -f pair of values.yaml,
\* --version and --timeout, each present iff its option asks for it;
\* upgrade hands it the same with --install right after the chart reference.
C7_InstallUpgradeVector ==
    \A i \in 1..Len(calls) :
        /\ calls[i].cmd = <<"install">> => calls[i].params = C7_Vector(FALSE)
        /\ calls[i].cmd = <<"upgrade">> => calls[i].params = C7_Vector(TRUE)

\* an upgrade built with both flags, two values files, inline values, a
\* version and a timeout
C7_Witness ==
    /\ pc = "built" /\ calls[1].cmd = <<"upgrade">>
    /\ specs["values-files"] = <<"b", "\n", "a">>
    /\ calls[1].params =
         <<"r1", "X", "--install", "--namespace", "ns1", "--atomic",
           "--dry-run", "-f", "b", "-f", "a", "-f", ValuesPath,
           "--version", "1.2.3", "--timeout", "5m">>

----------------------------------------------------------------------------
(* C8 *)

RECURSIVE DropPair(_, _)
\* q without each occurrence of flag and the element after it
DropPair(q, flag) ==
    IF q = <<>> THEN <<>>
    ELSE IF Head(q) = flag THEN DropPair(SubSeq(q, 3, Len(q)), flag)
    ELSE <<Head(q)>> \o DropPair(Tail(q), flag)

NotAFlag(e) == e \notin {"--atomic", "--dry-run"}

\* the list install builds from the configuration of this run
InstallVector == helm_install_params(specs, load_values(specs).ret)

\* C8 (as claimed): the list template hands the runner is install's list
\* without --atomic and --dry-run, and in template mode the credential file
\* is never in the working directory.
C8_TemplateIsInstallMinusFlags ==
    specs["mode"] = "template"
        => /\ KubeconfigFile \notin files
           /\ \A i \in DeployCalls :
                calls[i].params = SelectSeq(InstallVector, NotAFlag)

\* C8 (amended): the list template hands the runner is install's list
\* without --atomic, --dry-run and the --timeout pair, and in template mode
\* the credential file is never in the working directory.
C8_TemplateIsInstallMinusFlagsAndTimeout ==
    specs["mode"] = "template"
        => /\ KubeconfigFile \notin files
           /\ \A i \in DeployCalls :
                calls[i].params =
                  DropPair(SelectSeq(InstallVector, NotAFlag), "--timeout")

\* a template run with atomic, dry-run and timeout set has ended
C8_Witness ==
    /\ specs["mode"] = "template" /\ Exited /\ DeployProcs # {}
    /\ specs["atomic"] = "true" /\ specs["timeout"] = "5m"
    /\ specs["values"] = GoodYaml

----------------------------------------------------------------------------
(* C9 *)

\* C9: at most one child is alive; with a repository configured in install,
\* upgrade or template mode the first child is `repo add --force-update
\* <name> <repo>`, the second is `repo update`, started after the first
\* ended, and both have ended, whatever they returned, before the operation
\* proceeds, writes a file or starts its child; otherwise no repo child is
\* ever started.
C9_RepoRegistrationOrder ==
    LET registers == specs["mode"] \in {"install", "upgrade", "template"}
                     /\ specs["repo"] \notin {None, ""}
        name == IF specs["repo-name"] \in {None, ""}
                THEN "charts" ELSE specs["repo-name"]
    IN
    /\ Cardinality(Running) <= 1
    /\ registers =>
         /\ Len(procs) >= 1 =>
              procs[1].argv = <<"helm", "repo", "add", "--force-update",
                                name, specs["repo"]>>
         /\ Len(procs) >= 2 =>
              /\ procs[2].argv = <<"helm", "repo", "update">>
              /\ procs[1].returncode # <<>>
         /\ (Len(procs) >= 3 \/ files # {} \/ PastRepo) =>
              /\ Len(procs) >= 2
              /\ procs[2].returncode # <<>>
         /\ RepoProcs \subseteq {1, 2}
    /\ ~registers => RepoProcs = {}

\* the deploy child runs after repo add and repo update both returned 1
C9_Witness ==
    /\ Len(procs) = 3 /\ procs[3].returncode = <<>>
    /\ procs[1].returncode = <<1>> /\ procs[2].returncode = <<1>>
    /\ procs[3].argv[2] = "upgrade"

----------------------------------------------------------------------------
(* C10 *)

\* C10: the chart reference handed to install, upgrade and template is
\* charts/X exactly when a repository is configured and repo-name is unset
\* or empty, and X otherwise; and a rewritten reference starts with the
\* name the repo add call of the same run registered.
C10_ChartReference ==
    \A i \in DeployCalls :
        calls[i].cmd[1] \in {"install", "upgrade", "template"} =>
            LET ref == calls[i].params[2]
                X == specs["chart"]
                rewritten == specs["repo"] \notin {None, ""}
                             /\ specs["repo-name"] \in {None, ""}
            IN
            /\ rewritten => ref = "charts/" \o X
            /\ ~rewritten => ref = X
            /\ ref # X =>
                 /\ calls[1].cmd = <<"repo", "add", "--force-update">>
                 /\ ref = calls[1].params[1] \o "/" \o X

\* an install with a repository and an empty repo-name asks for charts/X
C10_Witness ==
    \E i \in DeployCalls :
        /\ calls[i].cmd = <<"install">>
        /\ specs["repo-name"] = ""
        /\ calls[i].params[2] = "charts/X"
        /\ calls[1].params[1] = "charts"

=============================================================================
